---- MODULE Spec2Model ----
(***************************************************************************)
(* Association and track-lifecycle engine of the deep_sort tracker:        *)
(*   src/deep_sort/linear_assignment.py  min_cost_matching,                *)
(*                                       matching_cascade, get_cost_matrix *)
(*   src/deep_sort/tracker.py            Tracker.predict / update / _match *)
(*                                                                         *)
(* Lists are sequences; list positions are 1-based here (Python 0-based).  *)
(* A cost matrix for R rows and C columns is a function on                 *)
(* (1..R) \X (1..C).  Costs are integers in tenths (0.7 is 7).             *)
(***************************************************************************)
EXTENDS Integers, Sequences, FiniteSets, TLC

VARIABLES
    tracks,      \* Tracker.tracks: sequence of Track records
    _next_id,    \* Tracker._next_id
    samples,     \* ids that own samples in the metric's gallery
    lastOp,      \* history: the last Tracker method called
    calls,       \* history: number of Tracker method calls so far
    last,        \* history: what the last Tracker.update did
    deleted,     \* history: ids of the tracks that were ever dropped as Deleted
    missed,      \* history: per live id, updates missed in a row since its last match
    matched,     \* history: per live id, the updates that matched it
    call,        \* arguments of a stand-alone call of the matching functions
    ret          \* history: what that call returned

vars == <<tracks, _next_id, samples, lastOp, calls, last, deleted, missed,
          matched, call, ret>>

(***************************************************************************)
(* Bounds of the model and the parameters of the Tracker under test.       *)
(***************************************************************************)
MaxTracks == 2                 \* live tracks after an update
MaxDets == 2                   \* detections per frame
max_age == 2                   \* Tracker(max_age=...)
n_init == 2                    \* Tracker(n_init=...)
max_iou_distance == 7          \* Tracker(max_iou_distance=0.7), in tenths
matching_threshold == 2        \* metric.matching_threshold, in tenths
INFTY_COST == 100000
MaxCalls == 12                 \* calls, one predict and one update per frame
AnyCalls == 5                  \* calls, in any order
MaxId == 3                     \* ids handed out
StaleCalls == 7                \* calls, in any order, on sparse frames
StaleDets == 1                 \* detections per sparse frame

\* what metric.distance, the gating test and iou_cost may return for one pair
DistVals == {matching_threshold, matching_threshold + 1}
IouVals == {0, max_iou_distance, max_iou_distance + 1}
\* stand-alone calls of the matchers: the cells of the cost table, the costs
\* of a pair and the threshold
MaxCells == 6
CostVals == {0, 1, 2}
Thresholds == {1}

(***************************************************************************)
(* Python list helpers.                                                    *)
(***************************************************************************)
Range(s) == {s[i] : i \in DOMAIN s}

Min(S) == CHOOSE x \in S : \A y \in S : x <= y

RECURSIVE SortedSeq(_)
\* the elements of a finite set of integers, ascending
SortedSeq(S) == IF S = {} THEN <<>> ELSE <<Min(S)>> \o SortedSeq(S \ {Min(S)})

RECURSIVE SumSeq(_)
SumSeq(s) == IF s = <<>> THEN 0 ELSE Head(s) + SumSeq(Tail(s))

\* 1e-5 as a fraction of the cost unit: small enough that no sum of them over
\* one assignment reaches one unit
EpsInv == MaxTracks + MaxDets + 2

(***************************************************************************)
(* linear_assignment.min_cost_matching                                     *)
(***************************************************************************)
\* line 30: cost_matrix[cost_matrix > max_distance] = max_distance + 1e-5,
\* in 1/EpsInv units
Clamp(cost_matrix, max_distance) ==
    [rc \in DOMAIN cost_matrix |->
        IF cost_matrix[rc] > max_distance THEN max_distance * EpsInv + 1
        ELSE cost_matrix[rc] * EpsInv]

\* the pairs (row, col) of an assignment, in row order as scipy returns them
IndicesOf(f, byRow) ==
    IF byRow THEN [k \in 1..Cardinality(DOMAIN f) |-> <<k, f[k]>>]
    ELSE LET rows == SortedSeq({f[c] : c \in DOMAIN f})
         IN [k \in 1..Len(rows) |->
                <<rows[k], CHOOSE c \in DOMAIN f : f[c] = rows[k]>>]

Assignments(R, C) ==
    IF R <= C
    THEN {IndicesOf(f, TRUE) :
            f \in {g \in [1..R -> 1..C] : \A a, b \in 1..R : a # b => g[a] # g[b]}}
    ELSE {IndicesOf(f, FALSE) :
            f \in {g \in [1..C -> 1..R] : \A a, b \in 1..C : a # b => g[a] # g[b]}}

TotalCost(cost_matrix, indices) ==
    SumSeq([k \in 1..Len(indices) |-> cost_matrix[indices[k]]])

\* the assignments of min(R, C) pairs for every shape, tabulated once
AssignmentTable ==
    [rc \in (1..MaxTracks + 1) \X (1..MaxDets + 1) |->
        Assignments(rc[1], rc[2])] @@ <<>>

\* a solver that returns some assignment, not a cheapest one
linear_assignment_any(cost_matrix, R, C) == AssignmentTable[<<R, C>>]

\* lines 31-32: scipy.optimize.linear_sum_assignment: some assignment of
\* min(R, C) pairs of minimal total cost; which one among equals is not fixed
linear_assignment(cost_matrix, R, C) ==
    LET all == AssignmentTable[<<R, C>>]
        best == Min({TotalCost(cost_matrix, a) : a \in all})
    IN {a \in all : TotalCost(cost_matrix, a) = best}

\* line 46 left out: every solver pair is taken as a match
RejectsNever(cost, max_distance) == FALSE

\* line 46: cost_matrix[row, col] > max_distance, on the clamped matrix
Rejects(cost, max_distance) == cost > max_distance * EpsInv

\* what lines 34-51 read of the solved matrix: the chosen pairs, and for each
\* whether line 46 rejects it
Chosen(cost_matrix, indices, max_distance) ==
    [indices |-> indices,
     rejected |-> [k \in 1..Len(indices) |->
                     Rejects(cost_matrix[indices[k]], max_distance)]]

\* lines 29-32 for every cost matrix of CostSet: the possible solver outcomes
Solve(CostSet, max_distance, R, C) ==
    UNION {{Chosen(Clamp(cm, max_distance), ind, max_distance) :
                ind \in linear_assignment(Clamp(cm, max_distance), R, C)} :
           cm \in CostSet}

\* lines 34-51; solver_calls is history: the runs of lines 29-31 (the cost
\* function and the solver) behind the result
MatchingOf(s, track_indices, detection_indices) ==
    LET n == Len(s.indices)
        rows == {s.indices[k][1] : k \in 1..n}
        cols == {s.indices[k][2] : k \in 1..n}
        colPos == SelectSeq([c \in 1..Len(detection_indices) |-> c],
                            LAMBDA c : c \notin cols)
        rowPos == SelectSeq([r \in 1..Len(track_indices) |-> r],
                            LAMBDA r : r \notin rows)
        bad == SelectSeq([k \in 1..n |-> k], LAMBDA k : s.rejected[k])
        good == SelectSeq([k \in 1..n |-> k], LAMBDA k : ~s.rejected[k])
    IN [matches |->
            [j \in 1..Len(good) |->
                <<track_indices[s.indices[good[j]][1]],
                  detection_indices[s.indices[good[j]][2]]>>],
        unmatched_tracks |->
            [j \in 1..Len(rowPos) |-> track_indices[rowPos[j]]]
            \o [j \in 1..Len(bad) |-> track_indices[s.indices[bad[j]][1]]],
        unmatched_detections |->
            [j \in 1..Len(colPos) |-> detection_indices[colPos[j]]]
            \o [j \in 1..Len(bad) |-> detection_indices[s.indices[bad[j]][2]]],
        solver_calls |-> 1]

\* line 27 returning empty lists
NothingToMatchEmpty(track_indices, detection_indices) ==
    [matches |-> <<>>,
     unmatched_tracks |-> <<>>,
     unmatched_detections |-> <<>>,
     solver_calls |-> 0]

\* lines 25-27: nothing to match
NothingToMatch(track_indices, detection_indices) ==
    [matches |-> <<>>,
     unmatched_tracks |-> track_indices,
     unmatched_detections |-> detection_indices,
     solver_calls |-> 0]

(***************************************************************************)
(* The cost functions handed to the matchers.  metric.distance, the Kalman *)
(* gating distance and iou_cost are collaborators whose values the matcher *)
(* does not control: each call may return any matrix over their values.    *)
(***************************************************************************)
Cells(R, C) == (1..R) \X (1..C)

\* line 105 left out: no entry is invalidated
get_cost_matrix_keep(cost_matrix, exceeds, gated_cost) == cost_matrix

\* linear_assignment.get_cost_matrix, lines 97-106: exceeds is the set of
\* cells whose gating distance is above the chi-square threshold
get_cost_matrix(cost_matrix, exceeds, gated_cost) ==
    [rc \in DOMAIN cost_matrix |->
        IF rc \in exceeds THEN gated_cost ELSE cost_matrix[rc]]

\* Tracker._match.gated_metric, tracker.py lines 63-70
gated_metric(R, C) ==
    {get_cost_matrix(cm, ex, INFTY_COST) :
        cm \in [Cells(R, C) -> DistVals], ex \in SUBSET Cells(R, C)}

\* iou_matching.iou_cost
iou_cost(R, C) == [Cells(R, C) -> IouVals]

\* a cost function given as a table over all tracks and detections
given_cost(cost, track_indices, detection_indices) ==
    {[rc \in Cells(Len(track_indices), Len(detection_indices)) |->
        cost[track_indices[rc[1]], detection_indices[rc[2]]]]}

\* gated_metric with metric.distance given as a table over all tracks and
\* detections, exceeds being the pairs (track, detection) whose gating
\* distance is above the chi-square threshold
gated_given(cost, exceeds, track_indices, detection_indices) ==
    {get_cost_matrix(
        cm,
        {rc \in DOMAIN cm :
            <<track_indices[rc[1]], detection_indices[rc[2]]>> \in exceeds},
        INFTY_COST) :
     cm \in given_cost(cost, track_indices, detection_indices)}

\* the solver outcomes of each cost function for every shape of the matrix,
\* tabulated once (@@ makes the table a stored function)
GatedSolved ==
    [rc \in Cells(MaxTracks, MaxDets) |->
        Solve(gated_metric(rc[1], rc[2]), matching_threshold, rc[1], rc[2])]
    @@ <<>>

IouSolved ==
    [rc \in Cells(MaxTracks, MaxDets) |->
        Solve(iou_cost(rc[1], rc[2]), max_iou_distance, rc[1], rc[2])]
    @@ <<>>

\* lines 29-32 of min_cost_matching for the cost function distance_metric
Solved(distance_metric, max_distance, track_indices, detection_indices) ==
    LET R == Len(track_indices)
        C == Len(detection_indices)
    IN CASE distance_metric.kind = "gated_metric" -> GatedSolved[<<R, C>>]
         [] distance_metric.kind = "iou_cost" -> IouSolved[<<R, C>>]
         [] distance_metric.kind = "gated_given" ->
                Solve(gated_given(distance_metric.cost, distance_metric.exceeds,
                                  track_indices, detection_indices),
                      max_distance, R, C)
         [] OTHER ->
                Solve(given_cost(distance_metric.cost, track_indices,
                                 detection_indices), max_distance, R, C)

\* min_cost_matching, lines 20-51, with the index lists given: the set of
\* the results it may return
min_cost_matching(distance_metric, max_distance, track_indices, detection_indices) ==
    IF track_indices = <<>> \/ detection_indices = <<>>
    THEN {NothingToMatch(track_indices, detection_indices)}
    ELSE {MatchingOf(s, track_indices, detection_indices) :
            s \in Solved(distance_metric, max_distance, track_indices,
                         detection_indices)}

(***************************************************************************)
(* min_cost_matching with index lists left out (lines 20-27).  An index    *)
(* list is a Python list or, when left out, the array np.arange(n).        *)
(***************************************************************************)
\* an argument left out, and an argument given as a Python list
None == [none |-> TRUE, items |-> <<>>]

Given(items) == [none |-> FALSE, items |-> items]

\* lines 21 and 23: np.arange(n), positions 0..n-1 in Python, 1..n here
arange(n) == [array |-> TRUE, items |-> [i \in 1..n |-> i]]

list(items) == [array |-> FALSE, items |-> items]

\* line 25, `not x`: a list is false when empty.  An array has the truth
\* value of its only element, and the only element of np.arange(1) is 0;
\* with more elements bool() raises ValueError; with none it is False with
\* a deprecation warning or raises ValueError, by the numpy release
not_(x) ==
    IF ~x.array THEN {IF Len(x.items) = 0 THEN "True" ELSE "False"}
    ELSE IF Len(x.items) = 0 THEN {"True", "ValueError"}
    ELSE IF Len(x.items) = 1 THEN {"True"}
    ELSE {"ValueError"}

Raised == [raised |-> "ValueError"]

\* lines 20-51 with track_indices and detection_indices Given or None:
\* the results the call may have
min_cost_matching_default(distance_metric, max_distance, n_tracks, n_detections, track_indices, detection_indices) ==
    LET ti == IF track_indices.none THEN arange(n_tracks)
              ELSE list(track_indices.items)
        di == IF detection_indices.none THEN arange(n_detections)
              ELSE list(detection_indices.items)
        nothing == NothingToMatch(ti.items, di.items)
    IN UNION {
        IF nt = "ValueError" THEN {Raised}
        ELSE IF nt = "True" THEN {nothing}
        ELSE UNION {
            IF nd = "ValueError" THEN {Raised}
            ELSE IF nd = "True" THEN {nothing}
            ELSE min_cost_matching(distance_metric, max_distance,
                                   ti.items, di.items) :
            nd \in not_(di)} :
        nt \in not_(ti)}

(***************************************************************************)
(* linear_assignment.matching_cascade, lines 68-87                         *)
(***************************************************************************)
\* line 76 with >= for ==: a level takes every track at least that stale
track_indices_l_older(trks, track_indices, level) ==
    SelectSeq(track_indices,
              LAMBDA k : trks[k].time_since_update >= 1 + level)

\* lines 74-77
track_indices_l(trks, track_indices, level) ==
    SelectSeq(track_indices,
              LAMBDA k : trks[k].time_since_update = 1 + level)

\* line 81 keeping the old pool: matched detections are offered again
CascadeStepKeepPool(st, r, level) ==
    [matches |-> st.matches \o r.matches,
     unmatched_detections |-> st.unmatched_detections,
     solver_calls |-> st.solver_calls + r.solver_calls,
     levels |-> Append(st.levels,
                       [level |-> level,
                        pool |-> st.unmatched_detections,
                        matches |-> r.matches])]

\* lines 81-85: one level's call; levels logs the pool each call was given
CascadeStep(st, r, level) ==
    [matches |-> st.matches \o r.matches,
     unmatched_detections |-> r.unmatched_detections,
     solver_calls |-> st.solver_calls + r.solver_calls,
     levels |-> Append(st.levels,
                       [level |-> level,
                        pool |-> st.unmatched_detections,
                        matches |-> r.matches])]

RECURSIVE CascadeLoop(_, _, _, _, _, _, _)
\* lines 70-85: the loop from `level` on, st being the loop's variables
CascadeLoop(distance_metric, max_distance, cascade_depth, trks, track_indices, level, st) ==
    IF level >= cascade_depth \/ Len(st.unmatched_detections) = 0
    THEN {st}
    ELSE LET til == track_indices_l(trks, track_indices, level)
         IN IF Len(til) = 0
            THEN CascadeLoop(distance_metric, max_distance, cascade_depth,
                             trks, track_indices, level + 1, st)
            ELSE UNION {CascadeLoop(distance_metric, max_distance,
                                    cascade_depth, trks, track_indices,
                                    level + 1, CascadeStep(st, r, level)) :
                        r \in min_cost_matching(distance_metric, max_distance,
                                til, st.unmatched_detections)}

\* line 86; list(set(...)) is taken in ascending order, its callers only
\* iterate over it
CascadeResult(st, track_indices) ==
    [matches |-> st.matches,
     unmatched_tracks |->
        SortedSeq(Range(track_indices) \ {m[1] : m \in Range(st.matches)}),
     unmatched_detections |-> st.unmatched_detections,
     solver_calls |-> st.solver_calls,
     levels |-> st.levels]

matching_cascade(distance_metric, max_distance, cascade_depth, trks, track_indices, detection_indices) ==
    {CascadeResult(st, track_indices) :
        st \in CascadeLoop(distance_metric, max_distance, cascade_depth,
                           trks, track_indices, 0,
                           [matches |-> <<>>,
                            unmatched_detections |-> detection_indices,
                            solver_calls |-> 0,
                            levels |-> <<>>])}

(***************************************************************************)
(* track.Track: the lifecycle state machine.  mean and covariance are      *)
(* left out: the matchers see them only through the cost functions.        *)
(* features is the number of feature vectors the track has buffered.       *)
(* marks is history: the mark_missed calls on the track in the last update.*)
(***************************************************************************)
Track(track_id) ==
    [track_id |-> track_id, state |-> "Tentative", hits |-> 0, age |-> 0,
     time_since_update |-> 0, features |-> 1, marks |-> 0]

is_confirmed(t) == t.state = "Confirmed"

is_deleted(t) == t.state = "Deleted"

TrackPredict(t) ==
    [t EXCEPT !.age = @ + 1, !.time_since_update = @ + 1]

\* a track confirmed one hit early
TrackUpdateEarly(t) ==
    [t EXCEPT !.hits = @ + 1,
              !.time_since_update = 0,
              !.features = @ + 1,
              !.state = IF @ = "Tentative" /\ t.hits + 2 >= n_init
                        THEN "Confirmed" ELSE @]

TrackUpdate(t) ==
    [t EXCEPT !.hits = @ + 1,
              !.time_since_update = 0,
              !.features = @ + 1,
              !.state = IF @ = "Tentative" /\ t.hits + 1 >= n_init
                        THEN "Confirmed" ELSE @]

mark_missed(t) ==
    [t EXCEPT !.state = IF @ = "Tentative" THEN "Deleted"
                        ELSE IF t.time_since_update > max_age THEN "Deleted"
                        ELSE @,
              !.marks = @ + 1]

(***************************************************************************)
(* tracker.Tracker                                                         *)
(***************************************************************************)
\* line 73
confirmed_tracks(trks) ==
    SelectSeq([i \in 1..Len(trks) |-> i], LAMBDA i : is_confirmed(trks[i]))

\* line 74
unconfirmed_tracks(trks) ==
    SelectSeq([i \in 1..Len(trks) |-> i], LAMBDA i : ~is_confirmed(trks[i]))

\* lines 83-85 without the filter: every track the cascade left unmatched
\* is retried
iou_track_candidates_all(trks, unmatched_tracks_a) ==
    unconfirmed_tracks(trks) \o unmatched_tracks_a

\* lines 83-85
iou_track_candidates(trks, unmatched_tracks_a) ==
    unconfirmed_tracks(trks)
    \o SelectSeq(unmatched_tracks_a,
                 LAMBDA k : trks[k].time_since_update = 1)

\* lines 86-88 without the filter: the tracks handed to the IOU round stay
\* in the cascade's unmatched list as well
unmatched_tracks_a_all(trks, unmatched_tracks) == unmatched_tracks

\* line 95 without unmatched_tracks_a: only the IOU round's unmatched tracks
\* are reported
unmatched_tracks_a_dropped(trks, unmatched_tracks) == <<>>

\* lines 86-88
unmatched_tracks_a(trks, unmatched_tracks) ==
    SelectSeq(unmatched_tracks, LAMBDA k : trks[k].time_since_update # 1)

\* history: the track indices the cascade handed to the cost function, those
\* of the levels that called min_cost_matching (lines 74-84)
CascadeQueried(trks, levels) ==
    UNION {Range(track_indices_l(trks, confirmed_tracks(trks), lv.level)) :
            lv \in Range(levels)}

\* lines 94-96; the fields after unmatched_detections are history of the two
\* rounds
MatchResult(trks, a, b) ==
    [matches |-> a.matches \o b.matches,
     unmatched_tracks |->
        SortedSeq(Range(unmatched_tracks_a(trks, a.unmatched_tracks))
                  \cup Range(b.unmatched_tracks)),
     unmatched_detections |-> b.unmatched_detections,
     matches_b |-> b.matches,
     iou_track_candidates |-> iou_track_candidates(trks, a.unmatched_tracks),
     queried |-> CascadeQueried(trks, a.levels),
     solver_calls |-> a.solver_calls + b.solver_calls]

\* Tracker._match, lines 61-96, for n detections: the possible results
_match(trks, n) ==
    UNION {{MatchResult(trks, a, b) :
                b \in min_cost_matching(
                        [kind |-> "iou_cost"], max_iou_distance,
                        iou_track_candidates(trks, a.unmatched_tracks),
                        a.unmatched_detections)} :
           a \in matching_cascade(
                    [kind |-> "gated_metric"], matching_threshold, max_age,
                    trks, confirmed_tracks(trks), [d \in 1..n |-> d])}

RECURSIVE UpdateMatchedTwice(_, _)
\* lines 38-40 calling update twice for a match
UpdateMatchedTwice(trks, matches) ==
    IF matches = <<>> THEN trks
    ELSE UpdateMatchedTwice(
            [trks EXCEPT ![Head(matches)[1]] = TrackUpdate(TrackUpdate(@))],
            Tail(matches))

\* lines 38-40 stopping after the first match
UpdateMatchedFirst(trks, matches) ==
    IF matches = <<>> THEN trks
    ELSE [trks EXCEPT ![Head(matches)[1]] = TrackUpdate(@)]

RECURSIVE UpdateMatched(_, _)
\* lines 38-40
UpdateMatched(trks, matches) ==
    IF matches = <<>> THEN trks
    ELSE UpdateMatched(
            [trks EXCEPT ![Head(matches)[1]] = TrackUpdate(@)], Tail(matches))

\* lines 42-43 left out
MarkMissedNone(trks, unmatched_tracks) == trks

\* lines 42-43 stopping after the first unmatched track
MarkMissedFirst(trks, unmatched_tracks) ==
    IF unmatched_tracks = <<>> THEN trks
    ELSE [trks EXCEPT ![Head(unmatched_tracks)] = mark_missed(@)]

RECURSIVE MarkMissed(_, _)
\* lines 42-43
MarkMissed(trks, unmatched_tracks) ==
    IF unmatched_tracks = <<>> THEN trks
    ELSE MarkMissed([trks EXCEPT ![Head(unmatched_tracks)] = mark_missed(@)],
                    Tail(unmatched_tracks))

\* line 103 left out: the counter stays
_initiate_track_same_id(next_id, unmatched_detections) ==
    [new |-> [j \in 1..Len(unmatched_detections) |-> Track(next_id)],
     next_id |-> next_id]

\* Tracker._initiate_track, lines 98-103, once per unmatched detection
\* (lines 45-46): the new tracks, and the counter after them
_initiate_track(next_id, unmatched_detections) ==
    [new |-> [j \in 1..Len(unmatched_detections) |-> Track(next_id + j - 1)],
     next_id |-> next_id + Len(unmatched_detections)]

\* line 48 left out
DropNone(trks) == trks

\* line 48
DropDeleted(trks) == SelectSeq(trks, LAMBDA t : ~is_deleted(t))

\* line 58 outside the test of line 54: every buffer is emptied
ClearFeaturesAll(trks) ==
    [i \in 1..Len(trks) |-> [trks[i] EXCEPT !.features = 0]]

\* lines 53-58: the buffers of the Confirmed tracks are handed over
ClearFeatures(trks) ==
    [i \in 1..Len(trks) |->
        IF is_confirmed(trks[i]) THEN [trks[i] EXCEPT !.features = 0]
        ELSE trks[i]]

\* line 51
active_targets(trks) ==
    {t.track_id : t \in {x \in Range(trks) : is_confirmed(x)}}

\* line 58 ahead of lines 56-57: the buffers are emptied before they are
\* handed over
targets_emptied(trks) == [id \in active_targets(trks) |-> 0]

\* lines 52-57: the ids the features are tagged with, as the number of
\* features handed over for each id
targets(trks) ==
    [id \in active_targets(trks) |->
        LET t == CHOOSE x \in Range(trks) : x.track_id = id IN t.features]

\* metric.partial_fit(features, targets, active_targets), line 59: the ids of
\* the handed-over features enter the gallery, the ids outside active_targets
\* leave it
partial_fit(gallery, fed, active) ==
    (gallery \cup {id \in DOMAIN fed : fed[id] > 0}) \cap active

\* the tracks after lines 38-46, Deleted ones still among them
Transitions(trks, next_id, m) ==
    MarkMissed(UpdateMatched(trks, m.matches), m.unmatched_tracks)
    \o _initiate_track(next_id, m.unmatched_detections).new

\* history: the consecutive misses of each live id after an update
Missed(old, after, m) ==
    [id \in {t.track_id : t \in Range(after)} |->
        IF \E k \in Range(m.unmatched_tracks) :
                k <= Len(after) /\ after[k].track_id = id
        THEN (IF id \in DOMAIN old THEN old[id] ELSE 0) + 1
        ELSE 0]

\* lines 27-28 leaving the loop after the first track
PredictFirst ==
    /\ calls < MaxCalls
    /\ tracks' = [i \in 1..Len(tracks) |->
                    IF i = 1 THEN TrackPredict(tracks[i]) ELSE tracks[i]]
    /\ lastOp' = "predict"
    /\ calls' = calls + 1
    /\ UNCHANGED <<_next_id, samples, last, deleted, missed, matched, call, ret>>

\* Tracker.predict, lines 25-28
Predict ==
    /\ calls < MaxCalls
    /\ tracks' = [i \in 1..Len(tracks) |-> TrackPredict(tracks[i])]
    /\ lastOp' = "predict"
    /\ calls' = calls + 1
    /\ UNCHANGED <<_next_id, samples, last, deleted, missed, matched, call, ret>>

\* Tracker.update(detections), lines 30-59, for n detections
UpdateDetections(n) ==
    /\ calls < MaxCalls
    /\ \E m \in _match(tracks, n) :
        LET start == <<>> \o [i \in 1..Len(tracks) |->
                                [tracks[i] EXCEPT !.marks = 0]]
            after == Transitions(start, _next_id, m)
            live == DropDeleted(after)
            gone == {t \in Range(after) : is_deleted(t)}
            now == Missed(missed, after, m)
        IN /\ Len(live) <= MaxTracks
           /\ _next_id + Len(m.unmatched_detections) <= MaxId + 1
           /\ tracks' = ClearFeatures(live)
           /\ _next_id' = _initiate_track(_next_id,
                                          m.unmatched_detections).next_id
           /\ samples' = partial_fit(samples, targets(live),
                                     active_targets(live))
           /\ deleted' = deleted \cup {t.track_id : t \in gone}
           /\ missed' = [id \in {t.track_id : t \in Range(live)} |-> now[id]]
           /\ matched' = [id \in {t.track_id : t \in Range(live)} |->
                            (IF id \in DOMAIN matched THEN matched[id] ELSE 0)
                            + Cardinality({k \in Range(m.matches) :
                                            tracks[k[1]].track_id = id})]
           /\ last' = [matches |-> m.matches,
                       unmatched_tracks |-> m.unmatched_tracks,
                       unmatched_detections |-> m.unmatched_detections,
                       n_tracks |-> Len(tracks),
                       n_detections |-> n,
                       before |-> tracks,
                       next_id |-> _next_id,
                       gallery |-> samples,
                       matches_b |-> m.matches_b,
                       iou_track_candidates |-> m.iou_track_candidates,
                       queried |-> m.queried,
                       solver_calls |-> m.solver_calls,
                       marks |-> [k \in 1..Len(tracks) |-> after[k].marks],
                       fit |-> [targets |-> targets(live),
                                active_targets |-> active_targets(live)],
                       empty_frames |->
                          IF n = 0 THEN last.empty_frames + 1 ELSE 0,
                       matched |->
                          {tracks[k[1]].track_id : k \in Range(m.matches)},
                       created |->
                          {_next_id + j - 1 :
                            j \in 1..Len(m.unmatched_detections)},
                       unmatched |->
                          {[track_id |-> tracks[k].track_id,
                            state |-> tracks[k].state,
                            hits |-> tracks[k].hits] :
                                k \in Range(m.unmatched_tracks)},
                       removed |->
                          {[track_id |-> t.track_id,
                            confirmed |->
                                \E k \in 1..Len(tracks) :
                                    /\ tracks[k].track_id = t.track_id
                                    /\ is_confirmed(tracks[k]),
                            hits |-> t.hits,
                            missed |-> now[t.track_id]] : t \in gone}]
    /\ lastOp' = "update"
    /\ calls' = calls + 1
    /\ UNCHANGED <<call, ret>>

\* Tracker.update with any number of detections up to MaxDets
Update == \E n \in 0..MaxDets : UpdateDetections(n)

NoCall == [op |-> "none"]

NoUpdate ==
    [matches |-> <<>>, unmatched_tracks |-> <<>>, unmatched_detections |-> <<>>,
     n_tracks |-> 0, n_detections |-> 0, before |-> <<>>, next_id |-> 1,
     gallery |-> {}, matches_b |-> <<>>, iou_track_candidates |-> <<>>,
     queried |-> {}, solver_calls |-> 0, marks |-> <<>>,
     fit |-> [targets |-> <<>>, active_targets |-> {}], empty_frames |-> 0,
     matched |-> {}, created |-> {}, unmatched |-> {}, removed |-> {}]

\* Tracker.__init__, lines 18-23
Init ==
    /\ tracks = <<>>
    /\ _next_id = 1
    /\ samples = {}
    /\ lastOp = "init"
    /\ calls = 0
    /\ last = NoUpdate
    /\ deleted = {}
    /\ missed = <<>>
    /\ matched = <<>>
    /\ call = NoCall
    /\ ret = NoCall

\* one predict, then one update, per frame
PredictFrame == lastOp # "predict" /\ Predict

UpdateFrame == lastOp = "predict" /\ Update

Next == PredictFrame \/ UpdateFrame

Spec == Init /\ [][Next]_vars

\* predict and update called in any order
PredictAny == calls < AnyCalls /\ Predict

UpdateAny == calls < AnyCalls /\ Update

NextAny == PredictAny \/ UpdateAny

SpecAny == Init /\ [][NextAny]_vars

\* predict and update called in any order for longer, on frames with at most
\* StaleDets detections: tracks go stale past max_age between two updates
PredictStale == calls < StaleCalls /\ Predict

UpdateStale == calls < StaleCalls /\ \E n \in 0..StaleDets : UpdateDetections(n)

NextStale == PredictStale \/ UpdateStale

SpecStale == Init /\ [][NextStale]_vars

(***************************************************************************)
(* Stand-alone calls of min_cost_matching and matching_cascade on a cost   *)
(* function given as a table over all tracks and detections.               *)
(***************************************************************************)
Shapes ==
    {rc \in (1..MaxTracks + 1) \X (1..MaxDets + 1) : rc[1] * rc[2] <= MaxCells}

\* index lists over 1..n without repeats: ascending, or all of them descending
IndexLists(n) ==
    {SortedSeq(S) : S \in SUBSET (1..n)} \cup {[i \in 1..n |-> n + 1 - i]}

InitMatch ==
    /\ tracks = <<>>
    /\ _next_id = 1
    /\ samples = {}
    /\ lastOp = "init"
    /\ calls = 0
    /\ last = NoUpdate
    /\ deleted = {}
    /\ missed = <<>>
    /\ matched = <<>>
    /\ call \in UNION {{[op |-> "args", n_tracks |-> rc[1],
                           n_detections |-> rc[2], cost |-> c] :
                            c \in [Cells(rc[1], rc[2]) -> CostVals]} :
                        rc \in Shapes}
    /\ ret = NoCall

\* min_cost_matching(cost, max_distance, tracks, detections, track_indices,
\*                   detection_indices)
MinCostMatchingCall ==
    /\ call.op = "args" /\ ret = NoCall
    /\ \E track_indices \in IndexLists(call.n_tracks),
          detection_indices \in IndexLists(call.n_detections),
          max_distance \in Thresholds :
        \E r \in min_cost_matching([kind |-> "given", cost |-> call.cost],
                                   max_distance, track_indices,
                                   detection_indices) :
            ret' = [op |-> "min_cost_matching",
                    max_distance |-> max_distance,
                    track_indices |-> track_indices,
                    detection_indices |-> detection_indices,
                    result |-> r]
    /\ UNCHANGED <<tracks, _next_id, samples, lastOp, calls, last, deleted,
                   missed, matched, call>>

\* matching_cascade(cost, max_distance, max_age, tracks, detections,
\*                  track_indices), the tracks having the given
\* time_since_update
MatchingCascadeCall ==
    /\ call.op = "args" /\ ret = NoCall
    /\ \E track_indices \in {SortedSeq(S) : S \in SUBSET (1..call.n_tracks)},
          tsu \in [1..call.n_tracks -> 1..max_age + 1],
          max_distance \in Thresholds :
        \E r \in matching_cascade(
                    [kind |-> "given", cost |-> call.cost], max_distance,
                    max_age, [k \in 1..call.n_tracks |->
                                [time_since_update |-> tsu[k]]],
                    track_indices, [d \in 1..call.n_detections |-> d]) :
            ret' = [op |-> "matching_cascade",
                    max_distance |-> max_distance,
                    track_indices |-> track_indices,
                    detection_indices |-> [d \in 1..call.n_detections |-> d],
                    time_since_update |-> tsu,
                    result |-> r]
    /\ UNCHANGED <<tracks, _next_id, samples, lastOp, calls, last, deleted,
                   missed, matched, call>>

\* min_cost_matching(cost, max_distance, tracks, detections) and the calls
\* with one of the index lists left out; explicit holds the results of the
\* call that passes the lists of all indices
MinCostMatchingDefaultCall ==
    /\ call.op = "args" /\ ret = NoCall
    /\ \E track_indices \in {None, Given([k \in 1..call.n_tracks |-> k])},
          detection_indices \in
                {None, Given([d \in 1..call.n_detections |-> d])},
          max_distance \in Thresholds :
        /\ track_indices = None \/ detection_indices = None
        /\ \E r \in min_cost_matching_default(
                        [kind |-> "given", cost |-> call.cost], max_distance,
                        call.n_tracks, call.n_detections,
                        track_indices, detection_indices) :
            ret' = [op |-> "min_cost_matching_default",
                    max_distance |-> max_distance,
                    track_indices |-> track_indices,
                    detection_indices |-> detection_indices,
                    result |-> r,
                    explicit |->
                        min_cost_matching(
                            [kind |-> "given", cost |-> call.cost],
                            max_distance,
                            [k \in 1..call.n_tracks |-> k],
                            [d \in 1..call.n_detections |-> d])]
    /\ UNCHANGED <<tracks, _next_id, samples, lastOp, calls, last, deleted,
                   missed, matched, call>>

NextMatch ==
    MinCostMatchingCall \/ MatchingCascadeCall \/ MinCostMatchingDefaultCall

SpecMatch == InitMatch /\ [][NextMatch]_vars

(***************************************************************************)
(* Stand-alone calls of get_cost_matrix and of the cascade round of        *)
(* Tracker._match (lines 77-80) on Confirmed tracks, with the appearance   *)
(* distances and the outcome of the gating test given as tables.           *)
(***************************************************************************)
InitGate ==
    /\ tracks = <<>>
    /\ _next_id = 1
    /\ samples = {}
    /\ lastOp = "init"
    /\ calls = 0
    /\ last = NoUpdate
    /\ deleted = {}
    /\ missed = <<>>
    /\ matched = <<>>
    /\ call \in UNION {{[op |-> "gate", n_tracks |-> rc[1],
                           n_detections |-> rc[2], cost |-> c, exceeds |-> ex] :
                            c \in [Cells(rc[1], rc[2]) -> DistVals],
                            ex \in SUBSET Cells(rc[1], rc[2])} :
                        rc \in Shapes}
    /\ ret = NoCall

\* get_cost_matrix(kf, cost_matrix, tracks, detections, track_indices,
\*                 detection_indices) on the whole table
GetCostMatrixCall ==
    /\ call.op = "gate" /\ ret = NoCall
    /\ ret' = [op |-> "get_cost_matrix",
               cost_matrix |-> get_cost_matrix(call.cost, call.exceeds,
                                               INFTY_COST)]
    /\ UNCHANGED <<tracks, _next_id, samples, lastOp, calls, last, deleted,
                   missed, matched, call>>

\* matching_cascade(gated_metric, metric.matching_threshold, max_age, tracks,
\*                  detections, confirmed_tracks), the tracks having the
\* given time_since_update
GatedCascadeCall ==
    /\ call.op = "gate" /\ ret = NoCall
    /\ \E tsu \in [1..call.n_tracks -> 1..max_age + 1] :
        \E r \in matching_cascade(
                    [kind |-> "gated_given", cost |-> call.cost,
                     exceeds |-> call.exceeds],
                    matching_threshold, max_age,
                    [k \in 1..call.n_tracks |-> [time_since_update |-> tsu[k]]],
                    [k \in 1..call.n_tracks |-> k],
                    [d \in 1..call.n_detections |-> d]) :
            ret' = [op |-> "gated_cascade",
                    time_since_update |-> tsu,
                    result |-> r]
    /\ UNCHANGED <<tracks, _next_id, samples, lastOp, calls, last, deleted,
                   missed, matched, call>>

NextGate == GetCostMatrixCall \/ GatedCascadeCall

SpecGate == InitGate /\ [][NextGate]_vars

(***************************************************************************)
(* Properties.                                                             *)
(***************************************************************************)
\* how many times x occurs in the list s
Count(s, x) == Cardinality({i \in DOMAIN s : s[i] = x})

Firsts(matches) == [i \in DOMAIN matches |-> matches[i][1]]

Seconds(matches) == [i \in DOMAIN matches |-> matches[i][2]]

\* every x of S occurs exactly once in a and b together, and nothing else does
PartitionedBy(S, a, b) ==
    /\ \A x \in S : Count(a, x) + Count(b, x) = 1
    /\ Range(a) \cup Range(b) \subseteq S

\* C2: in matching_cascade a detection matched at one level is in the pool of
\* no later level, and on return the matched detections and the returned
\* unmatched detections hold every input detection exactly once
C2_CascadeConsumesDetections ==
    ret.op = "matching_cascade" =>
        LET r == ret.result
        IN /\ \A i, j \in DOMAIN r.levels :
                i < j =>
                    /\ r.levels[i].level < r.levels[j].level
                    /\ Range(Seconds(r.levels[i].matches))
                        \cap Range(r.levels[j].pool) = {}
           /\ PartitionedBy(Range(ret.detection_indices),
                            Seconds(r.matches), r.unmatched_detections)

\* two levels ran, the first matched a detection, and some detection stayed
\* unmatched
C2_Witness ==
    /\ ret.op = "matching_cascade"
    /\ Len(ret.result.levels) >= 2
    /\ ret.result.levels[1].matches # <<>>
    /\ ret.result.levels[2].matches # <<>>
    /\ ret.result.unmatched_detections # <<>>

\* C3: min_cost_matching on non-empty index lists returns only matches whose
\* cost in the cost function's own table is <= max_distance, in the indices
\* of the lists it was given, and every given track index and detection
\* index occurs exactly once, in a match or in its unmatched list
C3_MatchesWithinThreshold ==
    (/\ ret.op = "min_cost_matching"
     /\ ret.track_indices # <<>>
     /\ ret.detection_indices # <<>>) =>
        LET r == ret.result
        IN /\ \A i \in DOMAIN r.matches :
                call.cost[r.matches[i][1], r.matches[i][2]] <= ret.max_distance
           /\ PartitionedBy(Range(ret.track_indices),
                            Firsts(r.matches), r.unmatched_tracks)
           /\ PartitionedBy(Range(ret.detection_indices),
                            Seconds(r.matches), r.unmatched_detections)

\* index lists that differ from the matrix positions, a match, and a solver
\* pair rejected for its cost
C3_Witness ==
    /\ ret.op = "min_cost_matching"
    /\ ret.track_indices = <<2, 3>>
    /\ ret.detection_indices = <<2, 1>>
    /\ ret.result.matches = <<<<2, 2>>>>
    /\ ret.result.unmatched_tracks = <<3>>
    /\ ret.result.unmatched_detections = <<1>>
    /\ call.cost[3, 1] > ret.max_distance

\* C4 as claimed: an index returned unmatched has no partner within
\* max_distance among the indices of the other list
C4_UnmatchedHasNoFeasiblePartner ==
    ret.op = "min_cost_matching" =>
        /\ \A t \in Range(ret.result.unmatched_tracks) :
            \A d \in Range(ret.detection_indices) :
                call.cost[t, d] > ret.max_distance
        /\ \A d \in Range(ret.result.unmatched_detections) :
            \A t \in Range(ret.track_indices) :
                call.cost[t, d] > ret.max_distance

\* C4 amended: no unmatched track and unmatched detection of one call are
\* within max_distance of each other
C4_NoFeasibleUnmatchedPair ==
    ret.op = "min_cost_matching" =>
        \A t \in Range(ret.result.unmatched_tracks) :
            \A d \in Range(ret.result.unmatched_detections) :
                call.cost[t, d] > ret.max_distance

\* a track is left unmatched next to a detection within its reach that went
\* to another track, while a detection is unmatched too
C4_Witness ==
    /\ ret.op = "min_cost_matching"
    /\ ret.result.unmatched_detections # <<>>
    /\ \E t \in Range(ret.result.unmatched_tracks) :
        \E m \in Range(ret.result.matches) :
            call.cost[t, m[2]] <= ret.max_distance

LiveIds == {t.track_id : t \in Range(tracks)}

\* C1: the result of _match holds every detection index exactly once, in a
\* match or in unmatched_detections, and every live track index exactly
\* once, in a match or in unmatched_tracks; so the update leaves one track
\* per old track that was not dropped and one new track per unmatched
\* detection
C1_MatchPartitionsTracksAndDetections ==
    /\ PartitionedBy(1..last.n_detections, Seconds(last.matches),
                     last.unmatched_detections)
    /\ PartitionedBy(1..last.n_tracks, Firsts(last.matches),
                     last.unmatched_tracks)
    /\ Cardinality(last.matched) = Len(last.matches)
    /\ Cardinality(last.unmatched) = Len(last.unmatched_tracks)
    /\ last.matched \cap {u.track_id : u \in last.unmatched} = {}
    /\ Cardinality(last.created) = Len(last.unmatched_detections)
    /\ Len(tracks) + Cardinality(last.removed)
        = last.n_tracks + Len(last.unmatched_detections)

\* one update matched a track, reported another track unmatched and started
\* a track for an unmatched detection
C1_Witness ==
    /\ lastOp = "update"
    /\ last.matches # <<>>
    /\ last.unmatched_tracks # <<>>
    /\ last.unmatched_detections # <<>>

\* C5: no live track is Deleted, and the id of a track that was dropped as
\* Deleted is never the id of a live track again
C5_DeletedNeverLive ==
    /\ \A i \in DOMAIN tracks : tracks[i].state \in {"Tentative", "Confirmed"}
    /\ LiveIds \cap deleted = {}
    /\ {r.track_id : r \in last.removed} \subseteq deleted
    /\ last.matched \cap deleted = {}

\* a track was dropped, and later calls predicted and matched other tracks
C5_Witness ==
    /\ deleted # {}
    /\ lastOp = "update"
    /\ last.removed = {}
    /\ last.matches # <<>>

\* C6: with one predict and one update per frame, a Confirmed track is live
\* after each of its first max_age misses in a row and is dropped by the
\* miss after them
C6_ConfirmedSurvivesMaxAgeMisses ==
    /\ \A i \in DOMAIN tracks :
        is_confirmed(tracks[i]) =>
            /\ missed[tracks[i].track_id] <= max_age
            /\ lastOp = "update" =>
                tracks[i].time_since_update = missed[tracks[i].track_id]
    /\ \A r \in last.removed : r.confirmed => r.missed = max_age + 1
    /\ \A u \in last.unmatched :
        (u.state = "Confirmed" /\ u.track_id \in deleted) =>
            \E r \in last.removed : r.track_id = u.track_id /\ r.confirmed

\* a Confirmed track was dropped
C6_Witness ==
    \E r \in last.removed : r.confirmed /\ r.missed = max_age + 1

\* C7: a Tentative track reported unmatched by an update is dropped by that
\* update, whatever its hits
C7_TentativeMissIsDeleted ==
    \A u \in last.unmatched :
        u.state = "Tentative" =>
            /\ u.track_id \in deleted
            /\ u.track_id \notin LiveIds
            /\ \E r \in last.removed : r.track_id = u.track_id

\* a Tentative track was missed after one successful update
C7_Witness ==
    \E u \in last.unmatched : u.state = "Tentative" /\ u.hits = 1

\* C8: a live track is Confirmed exactly when n_init updates have matched it
\* since it was created with hits 0, its hits counting those updates
C8_ConfirmedIffNInitHits ==
    \A i \in DOMAIN tracks :
        /\ tracks[i].state \in {"Tentative", "Confirmed"}
        /\ tracks[i].hits = matched[tracks[i].track_id]
        /\ is_confirmed(tracks[i]) <=> matched[tracks[i].track_id] >= n_init
        /\ is_confirmed(tracks[i]) <=> tracks[i].hits >= n_init
        /\ tracks[i].track_id \in last.created => tracks[i].hits = 0

\* a track just Confirmed by its n_init-th update, next to a Tentative one
C8_Witness ==
    /\ lastOp = "update"
    /\ \E i \in DOMAIN tracks :
        /\ is_confirmed(tracks[i])
        /\ matched[tracks[i].track_id] = n_init
        /\ tracks[i].track_id \in last.matched
    /\ \E i \in DOMAIN tracks :
        tracks[i].state = "Tentative" /\ tracks[i].hits = n_init - 1

\* C9 as claimed: when update returns, a live track has time_since_update 0
\* exactly if the update matched it
C9_ZeroIffMatched ==
    lastOp = "update" =>
        \A i \in DOMAIN tracks :
            tracks[i].time_since_update = 0
                <=> tracks[i].track_id \in last.matched

\* C9 amended: when update returns, a live track has time_since_update 0
\* exactly if the update matched it or created it
C9_ZeroIffMatchedOrCreated ==
    lastOp = "update" =>
        \A i \in DOMAIN tracks :
            tracks[i].time_since_update = 0
                <=> tracks[i].track_id \in last.matched \cup last.created

\* after an update, a matched track next to a missed track that stayed live
C9_Witness ==
    /\ lastOp = "update"
    /\ \E i \in DOMAIN tracks : tracks[i].track_id \in last.matched
    /\ \E i \in DOMAIN tracks :
        /\ tracks[i].track_id \in {u.track_id : u \in last.unmatched}
        /\ tracks[i].time_since_update > 0

\* C10: ids come from a counter that only grows: the live tracks carry
\* distinct ids in the order of their creation, every id below the counter
\* was handed out once and is live or dropped, and none is handed out again
C10_IdsUniqueAndIncreasing ==
    /\ \A i, j \in DOMAIN tracks :
        i < j => tracks[i].track_id < tracks[j].track_id
    /\ LiveIds \cap deleted = {}
    /\ LiveIds \cup deleted = 1.._next_id - 1
    /\ \A id \in last.created : \A old \in last.matched : old < id
    /\ \A id \in last.created : \A u \in last.unmatched : u.track_id < id

\* tracks were dropped and later ones created while an older one lives on
C10_Witness ==
    /\ deleted # {}
    /\ Len(tracks) = 2
    /\ _next_id = MaxId + 1
    /\ \E id \in deleted : tracks[1].track_id < id /\ id < tracks[2].track_id

\* the matches of the cascade round of the last update
MatchesA == SubSeq(last.matches, 1, Len(last.matches) - Len(last.matches_b))

\* C11: the IOU round of _match is offered only tracks that are not
\* Confirmed and Confirmed tracks with time_since_update 1 that the cascade
\* left unmatched, and matches only tracks it was offered; a Confirmed track
\* with time_since_update >= 2 that the cascade left unmatched is not
\* offered, not matched, reported unmatched and marked missed once
C11_StaleConfirmedNotRetried ==
    lastOp = "update" =>
        /\ \A k \in Range(last.iou_track_candidates) :
            \/ ~is_confirmed(last.before[k])
            \/ /\ last.before[k].time_since_update = 1
               /\ k \notin Range(Firsts(MatchesA))
        /\ Range(Firsts(last.matches_b)) \subseteq Range(last.iou_track_candidates)
        /\ \A k \in 1..last.n_tracks :
            (/\ is_confirmed(last.before[k])
             /\ last.before[k].time_since_update >= 2
             /\ k \notin Range(Firsts(MatchesA))) =>
                /\ k \notin Range(last.iou_track_candidates)
                /\ k \notin Range(Firsts(last.matches))
                /\ Count(last.unmatched_tracks, k) = 1
                /\ last.marks[k] = 1

\* a Confirmed track missed two frames ago goes unmatched while a detection
\* of the frame is left over and starts a track
C11_Witness ==
    /\ lastOp = "update"
    /\ last.unmatched_detections # <<>>
    /\ \E k \in 1..last.n_tracks :
        /\ is_confirmed(last.before[k])
        /\ last.before[k].time_since_update >= 2
        /\ k \in Range(last.unmatched_tracks)

\* C12: the cascade round never returns as a match a pair whose gating
\* distance exceeds the threshold, whatever its appearance distance, since
\* its cost is INFTY_COST, above the matching threshold, and every match is
\* within the matching threshold; get_cost_matrix returns a matrix over the
\* same cells that is INFTY_COST on the gated cells and unchanged on the
\* others
C12_GatedPairNeverMatched ==
    /\ INFTY_COST > matching_threshold
    /\ ret.op = "gated_cascade" =>
        \A i \in DOMAIN ret.result.matches :
            /\ ret.result.matches[i] \notin call.exceeds
            /\ call.cost[ret.result.matches[i]] <= matching_threshold
    /\ ret.op = "get_cost_matrix" =>
        /\ DOMAIN ret.cost_matrix = DOMAIN call.cost
        /\ \A rc \in DOMAIN call.cost :
            ret.cost_matrix[rc] = IF rc \in call.exceeds THEN INFTY_COST
                                  ELSE call.cost[rc]

\* a gated pair with an appearance distance within the threshold: its track
\* and its detection both end unmatched next to a match of the call
C12_Witness ==
    /\ ret.op = "gated_cascade"
    /\ ret.result.matches # <<>>
    /\ \E t \in Range(ret.result.unmatched_tracks) :
        \E d \in Range(ret.result.unmatched_detections) :
            /\ <<t, d>> \in call.exceeds
            /\ call.cost[t, d] <= matching_threshold

\* C13: min_cost_matching given an empty list of track indices or an empty
\* list of detection indices returns no matches, the track indices it was
\* given as unmatched tracks and the detection indices it was given as
\* unmatched detections, and runs neither the cost function nor the solver;
\* given two non-empty lists it runs them once
C13_EmptySubsetReturnsAtOnce ==
    ret.op = "min_cost_matching" =>
        IF ret.track_indices = <<>> \/ ret.detection_indices = <<>>
        THEN /\ ret.result.matches = <<>>
             /\ ret.result.unmatched_tracks = ret.track_indices
             /\ ret.result.unmatched_detections = ret.detection_indices
             /\ ret.result.solver_calls = 0
        ELSE ret.result.solver_calls = 1

\* no track indices against two detection indices in descending order
C13_Witness ==
    /\ ret.op = "min_cost_matching"
    /\ ret.track_indices = <<>>
    /\ ret.detection_indices = <<2, 1>>
    /\ ret.result.unmatched_detections = <<2, 1>>

\* C14: an update with no detections matches nothing, reports every live
\* track unmatched once and calls mark_missed on each once, creates no track
\* and leaves the id counter, and runs neither a cost function nor the solver
\* in the cascade or in the IOU round
C14_NoDetectionsMissesEveryTrack ==
    (lastOp = "update" /\ last.n_detections = 0) =>
        /\ last.matches = <<>>
        /\ Range(last.unmatched_tracks) = 1..last.n_tracks
        /\ \A k \in 1..last.n_tracks :
            /\ Count(last.unmatched_tracks, k) = 1
            /\ last.marks[k] = 1
        /\ last.unmatched_detections = <<>>
        /\ last.created = {}
        /\ _next_id = last.next_id
        /\ Len(tracks) + Cardinality(last.removed) = last.n_tracks
        /\ last.solver_calls = 0

\* no detections for a Confirmed track and a Tentative track
C14_Witness ==
    /\ lastOp = "update"
    /\ last.n_detections = 0
    /\ last.n_tracks = 2
    /\ \E k \in 1..2 : is_confirmed(last.before[k])
    /\ \E k \in 1..2 : ~is_confirmed(last.before[k])

\* C15: every call of predict, also one that follows another predict, adds
\* one to age and to time_since_update of every live track and leaves the
\* tracks' states and ids, the list of live tracks, the id counter and the
\* gallery as they were
C15_PredictOnlyAges ==
    [][(lastOp' = "predict" /\ calls' = calls + 1) =>
        /\ Len(tracks') = Len(tracks)
        /\ \A i \in DOMAIN tracks :
            /\ tracks'[i].age = tracks[i].age + 1
            /\ tracks'[i].time_since_update = tracks[i].time_since_update + 1
            /\ tracks'[i].state = tracks[i].state
            /\ tracks'[i].track_id = tracks[i].track_id
            /\ tracks'[i].hits = tracks[i].hits
        /\ _next_id' = _next_id
        /\ samples' = samples]_vars

\* two tracks after three calls of predict in a row
C15_Witness ==
    /\ lastOp = "predict"
    /\ Len(tracks) = 2
    /\ \A i \in DOMAIN tracks :
        /\ tracks[i].state = "Tentative"
        /\ tracks[i].time_since_update = 3
        /\ tracks[i].age = 3

ConfirmedIds == {t.track_id : t \in {x \in Range(tracks) : is_confirmed(x)}}

\* the features a Confirmed track of the last update had buffered when the
\* gallery was refreshed: those it came with and one if the update matched it
Buffered(id) ==
    LET k == CHOOSE j \in 1..last.n_tracks : last.before[j].track_id = id
    IN last.before[k].features + (IF id \in last.matched THEN 1 ELSE 0)

\* C16: when update returns, the gallery is the one the matching of this
\* update read, the gallery as the update found it, after one partial_fit;
\* that partial_fit was fed the buffered features of exactly the tracks that are live and Confirmed after
\* the transitions, the creations and the removals of the update, with their
\* ids as active_targets; every live Confirmed track has an empty buffer and
\* every live Tentative track still has the feature it was created with and
\* one per match
C16_GalleryRefreshedOnceAfterMatching ==
    lastOp = "update" =>
        /\ last.fit.active_targets = ConfirmedIds
        /\ DOMAIN last.fit.targets = ConfirmedIds
        /\ \A id \in ConfirmedIds : last.fit.targets[id] = Buffered(id)
        /\ samples = (last.gallery
                        \cup {id \in ConfirmedIds : last.fit.targets[id] > 0})
                      \cap ConfirmedIds
        /\ \A i \in DOMAIN tracks :
            /\ is_confirmed(tracks[i]) => tracks[i].features = 0
            /\ ~is_confirmed(tracks[i]) =>
                    tracks[i].features = tracks[i].hits + 1

\* an update matched a track that was Confirmed already and a Tentative
\* track, and dropped no track
C16_Witness ==
    /\ lastOp = "update"
    /\ \E k \in 1..last.n_tracks :
        /\ is_confirmed(last.before[k])
        /\ last.before[k].track_id \in last.matched
        /\ last.fit.targets[last.before[k].track_id] = 1
    /\ \E i \in DOMAIN tracks :
        /\ tracks[i].state = "Tentative"
        /\ tracks[i].track_id \in last.matched
        /\ tracks[i].features = 2

\* the matches and the unmatched indices of a result, without their order
AsSets(r) ==
    [matches |-> Range(r.matches),
     unmatched_tracks |-> Range(r.unmatched_tracks),
     unmatched_detections |-> Range(r.unmatched_detections)]

\* C17 as claimed: min_cost_matching with both index lists left out raises
\* nothing and returns the matches and the unmatched sets of a call that
\* passes the lists of all track indices and all detection indices
C17_DefaultsMatchAll ==
    (/\ ret.op = "min_cost_matching_default"
     /\ ret.track_indices = None
     /\ ret.detection_indices = None) =>
        /\ "raised" \notin DOMAIN ret.result
        /\ \E e \in ret.explicit : AsSets(e) = AsSets(ret.result)

\* the Confirmed tracks of the last update whose time_since_update was not
\* in 1..max_age when the update ran
Stale ==
    {k \in 1..last.n_tracks :
        /\ is_confirmed(last.before[k])
        /\ last.before[k].time_since_update \notin 1..max_age}

\* C18: when update returns, whatever the order of the calls before, every
\* live track has time_since_update <= max_age and every live Tentative
\* track has time_since_update 0; a Confirmed track whose time_since_update
\* was not in 1..max_age is in no level of the cascade, is not offered to
\* the IOU round, is not matched and is reported unmatched
C18_UpdateBoundsTimeSinceUpdate ==
    lastOp = "update" =>
        /\ \A i \in DOMAIN tracks :
            /\ tracks[i].time_since_update <= max_age
            /\ tracks[i].state = "Tentative" =>
                    tracks[i].time_since_update = 0
        /\ \A k \in Stale :
            /\ \A level \in 0..max_age - 1 :
                k \notin Range(track_indices_l(
                                last.before, confirmed_tracks(last.before),
                                level))
            /\ k \notin last.queried
            /\ k \notin Range(last.iou_track_candidates)
            /\ k \notin Range(Firsts(last.matches))
            /\ Count(last.unmatched_tracks, k) = 1

\* a Confirmed track updated twice in a row, so with time_since_update 0,
\* in a frame with a detection
C18_Witness ==
    /\ lastOp = "update"
    /\ last.n_detections > 0
    /\ \E k \in Stale :
        /\ last.before[k].time_since_update = 0
        /\ \E i \in DOMAIN tracks :
            /\ tracks[i].track_id = last.before[k].track_id
            /\ is_confirmed(tracks[i])

\* a Confirmed track predicted max_age + 1 times since its last match is
\* dropped by the update, in a frame with a detection
C18_WitnessPastMaxAge ==
    /\ lastOp = "update"
    /\ last.n_detections > 0
    /\ \E k \in Stale :
        /\ last.before[k].time_since_update = max_age + 1
        /\ last.before[k].track_id \in deleted

\* C19: the id of every live Confirmed track is in the gallery, from the
\* update that confirms the track on: that update hands over at least one
\* feature of the track, and no later refresh prunes the id while the track
\* is live; so every id the cascade of an update asked the metric about was
\* in the gallery that update found
C19_QueriedTargetsAreInGallery ==
    /\ ConfirmedIds \subseteq samples
    /\ lastOp = "update" =>
        /\ {last.before[k].track_id : k \in last.queried} \subseteq last.gallery
        /\ \A k \in last.queried : is_confirmed(last.before[k])
        /\ \A k \in 1..last.n_tracks :
            (/\ ~is_confirmed(last.before[k])
             /\ last.before[k].track_id \in ConfirmedIds) =>
                last.fit.targets[last.before[k].track_id] >= 1
        /\ last.gallery \cap ConfirmedIds \subseteq samples

\* the cascade asks about a track that was Confirmed two frames ago and
\* missed since, while another track is live
C19_Witness ==
    /\ lastOp = "update"
    /\ last.n_tracks = 2
    /\ \E k \in last.queried : last.before[k].time_since_update = 2

\* C20: with one predict and one update per frame, after k frames in a row
\* without detections every live track is Confirmed and has gone at least k
\* frames without a match, so none is live after max_age + 1 such frames and
\* no Tentative track after one; a tracker without tracks stays without
\* tracks in a frame without detections
C20_NoDetectionsEmptiesTracker ==
    /\ last.empty_frames >= max_age + 1 => tracks = <<>>
    /\ last.empty_frames >= 1 =>
        \A i \in DOMAIN tracks :
            /\ is_confirmed(tracks[i])
            /\ tracks[i].time_since_update >= last.empty_frames
    /\ (last.empty_frames >= 1 /\ last.n_tracks = 0) => tracks = <<>>
    /\ last.empty_frames >= 1 => last.created = {}

\* a Confirmed track matched in the frame before the first frame without
\* detections is dropped by the last of max_age + 1 such frames
C20_Witness ==
    /\ lastOp = "update"
    /\ last.empty_frames = max_age + 1
    /\ tracks = <<>>
    /\ \E r \in last.removed : r.confirmed

====
